---- MODULE Spec2Model ----
(***************************************************************************)
(* git2page: the evidence-gathering and batched-analysis pipeline of       *)
(* src/src/main.rs (handler `analyze`) and the endpoint resolver           *)
(* `detect_api_mode` (src/src/main.rs and src/wasm/src/lib.rs).            *)
(*                                                                         *)
(* Text that the code inspects (URLs, repository names) is a sequence of   *)
(* characters, each character a one-element string; "U+00E9" stands for    *)
(* the two-byte character e-acute.  Option<T> is a sequence of length at   *)
(* most one: None is <<>>, Some(x) is <<x>>.                               *)
(***************************************************************************)
EXTENDS Integers, Sequences, FiniteSets, TLC

VARIABLES
    pc,                \* position of the request handler
    api_url,           \* the request's endpoint URL (after env_or)
    host,              \* what the hosting service serves for the account's files
    user,              \* Option<GitHubUser>
    listing,           \* the listing response of fetch_repos (Vec<GitHubRepo>)
    repos,             \* the catalog (Vec<RepoInfo>)
    contexts,          \* the evidence records (Vec<String>)
    detected,          \* Option<(mode, endpoint)> of detect_api_mode
    all_llm_projects,  \* accumulated Vec<LlmProject>
    hero_title,        \* String
    bio,               \* String
    calls,             \* the inference calls issued so far, in order
    response,          \* the HTTP response of the handler
    content,           \* the GitHubContent served for one file
    decoded            \* Option<Result<String>> of decoding that content

vars == <<pc, api_url, host, user, listing, repos, contexts, detected,
          all_llm_projects, hero_title, bio, calls, response, content, decoded>>

None == <<>>

Some(x) == <<x>>

---------------------------------------------------------------------------
(* Strings: Rust's str operations on character sequences.                  *)

\* UTF-8 width of a character, in bytes.
ByteWidth(c) == IF c = "U+00E9" THEN 2 ELSE 1

RECURSIVE ByteLen(_)
\* str::len: the length in bytes.
ByteLen(s) == IF s = <<>> THEN 0 ELSE ByteWidth(Head(s)) + ByteLen(Tail(s))

\* str::ends_with
EndsWith(s, suf) ==
    /\ Len(suf) <= Len(s)
    /\ SubSeq(s, Len(s) - Len(suf) + 1, Len(s)) = suf

\* str::starts_with
StartsWith(s, pre) ==
    /\ Len(pre) <= Len(s)
    /\ SubSeq(s, 1, Len(pre)) = pre

\* str::contains
Contains(s, pat) ==
    \E i \in 1..(Len(s) - Len(pat) + 1) : SubSeq(s, i, i + Len(pat) - 1) = pat

\* Variant of TrimEndMatchesSlash: one trailing '/' at most is removed.
TrimOneSlash(s) ==
    IF s # <<>> /\ s[Len(s)] = "/" THEN SubSeq(s, 1, Len(s) - 1) ELSE s

RECURSIVE TrimEndMatchesSlash(_)
\* str::trim_end_matches('/'): every trailing '/' removed.
TrimEndMatchesSlash(s) ==
    IF s # <<>> /\ s[Len(s)] = "/"
    THEN TrimEndMatchesSlash(SubSeq(s, 1, Len(s) - 1))
    ELSE s

RECURSIVE Replace(_, _, _)
\* str::replace: every non-overlapping occurrence, left to right.
Replace(s, from, to) ==
    IF Len(s) < Len(from) THEN s
    ELSE IF StartsWith(s, from)
         THEN to \o Replace(SubSeq(s, Len(from) + 1, Len(s)), from, to)
         ELSE <<Head(s)>> \o Replace(Tail(s), from, to)

\* The numbers k of trailing characters of s that make up exactly n bytes:
\* empty when byte offset len - n is not a character boundary.
TailChars(s, n) ==
    {k \in 0..Len(s) : ByteLen(SubSeq(s, Len(s) - k + 1, Len(s))) = n}

IsAsciiDigit(c) == c \in {"0", "1", "2", "3", "4", "5", "6", "7", "8", "9"}

S_chat_completions ==
    <<"/", "c", "h", "a", "t", "/", "c", "o", "m", "p", "l", "e", "t", "i", "o", "n", "s">>

S_api_chat == <<"/", "a", "p", "i", "/", "c", "h", "a", "t">>

S_api_generate == <<"/", "a", "p", "i", "/", "g", "e", "n", "e", "r", "a", "t", "e">>

S_v == <<"/", "v">>

S_api == <<"/", "a", "p", "i">>

S_chat == <<"/", "c", "h", "a", "t">>

S_port == <<":", "1", "1", "4", "3", "4">>

S_ollama == <<"o", "l", "l", "a", "m", "a">>

S_v1_chat_completions ==
    <<"/", "v", "1", "/", "c", "h", "a", "t", "/", "c", "o", "m", "p", "l", "e", "t", "i", "o", "n", "s">>

---------------------------------------------------------------------------
(* detect_api_mode                                                         *)

Resolved(mode, endpoint) == [panic |-> FALSE, mode |-> mode, endpoint |-> endpoint]

\* `&base_url[base_url.len()-3..]` off a character boundary: the thread panics.
Panicked == [panic |-> TRUE, mode |-> "", endpoint |-> <<>>]

\* Rule 3: `base_url.replace("/api/generate", "/api/chat")`.
RewriteGenerate(base_url) == Replace(base_url, S_api_generate, S_api_chat)

\* The guard of the /v<digit> block: `base_url.len() > 3`.
LongEnoughForLast3(base_url) == ByteLen(base_url) > 3

\* `last3.starts_with("/v") && last3.chars().last().map_or(false, is_ascii_digit)`
IsVersionSuffix(last3) ==
    /\ StartsWith(last3, S_v)
    /\ last3 # <<>>
    /\ IsAsciiDigit(last3[Len(last3)])

\* Variant of DetectTail: the default rule appends the version segment only.
DetectTailVersionOnly(base_url) ==
    IF EndsWith(base_url, S_api)
    THEN Resolved("ollama", base_url \o S_chat)
    ELSE IF Contains(base_url, S_port) \/ Contains(base_url, S_ollama)
         THEN Resolved("ollama", base_url \o S_api_chat)
         ELSE Resolved("openai", base_url \o S_v \o <<"1">>)

\* The rules after the /v<digit> block.
DetectTail(base_url) ==
    IF EndsWith(base_url, S_api)
    THEN Resolved("ollama", base_url \o S_chat)
    ELSE IF Contains(base_url, S_port) \/ Contains(base_url, S_ollama)
         THEN Resolved("ollama", base_url \o S_api_chat)
         ELSE Resolved("openai", base_url \o S_v1_chat_completions)

\* The /v<digit> block and what follows it.
DetectVersioned(base_url) ==
    IF LongEnoughForLast3(base_url)
    THEN IF TailChars(base_url, 3) = {}
         THEN Panicked
         ELSE LET k == CHOOSE k \in TailChars(base_url, 3) : TRUE
                  last3 == SubSeq(base_url, Len(base_url) - k + 1, Len(base_url))
              IN  IF IsVersionSuffix(last3)
                  THEN Resolved("openai", base_url \o S_chat_completions)
                  ELSE DetectTail(base_url)
    ELSE DetectTail(base_url)

DetectApiMode(url) ==
    LET base_url == TrimEndMatchesSlash(url)
    IN  IF EndsWith(base_url, S_chat_completions)
        THEN Resolved("openai", base_url)
        ELSE IF EndsWith(base_url, S_api_chat)
             THEN Resolved("ollama", base_url)
             ELSE IF EndsWith(base_url, S_api_generate)
                  THEN Resolved("ollama", RewriteGenerate(base_url))
                  ELSE DetectVersioned(base_url)

---------------------------------------------------------------------------
(* Letter case                                                             *)

LowerLetters ==
    <<"a", "b", "c", "d", "e", "f", "g", "h", "i", "j", "k", "l", "m",
      "n", "o", "p", "q", "r", "s", "t", "u", "v", "w", "x", "y", "z">>

UpperLetters ==
    <<"A", "B", "C", "D", "E", "F", "G", "H", "I", "J", "K", "L", "M",
      "N", "O", "P", "Q", "R", "S", "T", "U", "V", "W", "X", "Y", "Z">>

\* The lower-case letter of each upper-case letter.
LowerOf ==
    [c \in {UpperLetters[i] : i \in 1..Len(UpperLetters)} |->
        LowerLetters[CHOOSE i \in 1..Len(UpperLetters) : UpperLetters[i] = c]]

\* char::to_lowercase, char::to_ascii_lowercase
ToLowerChar(c) == IF c \in DOMAIN LowerOf THEN LowerOf[c] ELSE c

\* str::to_lowercase
ToLowercase(s) == [i \in 1..Len(s) |-> ToLowerChar(s[i])]

\* str::eq_ignore_ascii_case
EqIgnoreAsciiCase(a, b) ==
    /\ Len(a) = Len(b)
    /\ \A i \in 1..Len(a) : ToLowerChar(a[i]) = ToLowerChar(b[i])

---------------------------------------------------------------------------
(* fetch_github_user, fetch_repos: what the hosting service answers        *)

\* Number of entries of the largest listing response modelled (the request
\* asks for per_page=30).
MaxListing == 17

\* Number of analysis results the inference backend returns over one run,
\* at most.
MaxResults == 2

GitHubUserValue == [avatar_url |-> "avatar", html_url |-> "profile"]

S_my_repo == <<"m", "y", "-", "r", "e", "p", "o">>

S_My_Repo == <<"M", "y", "-", "R", "e", "p", "o">>

\* The name of the i-th listed repository: all lower case under profile 1,
\* capitalised under profile 2.  Names of one account differ pairwise, also
\* ignoring case.  Profile 1 is listed by falling star count and has no
\* fork; profile 2 is listed in another order (as under sort=updated), with
\* equal star counts, and every fourth repository is a fork.
ListedName(i, profile) ==
    IF i = 1
    THEN (IF profile = 1 THEN S_my_repo ELSE S_My_Repo)
    ELSE (IF profile = 1 THEN <<"r", LowerLetters[i]>> ELSE <<"R", LowerLetters[i]>>)

\* The i-th repository object of a listing response (struct GitHubRepo).
GitHubRepo(i, profile) ==
    [ name             |-> ListedName(i, profile),
      description      |-> IF (i + profile) % 2 = 0 THEN Some(<<"desc", i>>) ELSE None,
      language         |-> IF i % 3 = 0 THEN None
                           ELSE IF i % 3 = 1 THEN Some("Rust") ELSE Some("Python"),
      stargazers_count |-> IF profile = 1 THEN 100 - i ELSE (i * 3) % 7,
      forks_count      |-> i % 4,
      html_url         |-> <<"https://github.com/u/", i>>,
      topics           |-> IF i % 2 = 0 THEN <<"cli", "tool">> ELSE <<>>,
      fork             |-> (profile = 2 /\ i % 4 = 2) ]

Profiles == {1, 2}

\* The listing responses modelled: n entries of one profile.
ListingResponses ==
    {[i \in 1..n |-> GitHubRepo(i, profile)] : n \in 0..MaxListing, profile \in Profiles}

\* `.map(|r| RepoInfo { .. })` of fetch_repos.
RepoInfo(r) ==
    [ name        |-> r.name,
      description |-> r.description,
      language    |-> r.language,
      stars       |-> r.stargazers_count,
      forks       |-> r.forks_count,
      html_url    |-> r.html_url,
      topics      |-> r.topics ]

\* Variant of KeepRepo: forks are kept.
KeepEveryRepo(r) == TRUE

\* `.filter(|r| !r.fork)` of fetch_repos.
KeepRepo(r) == ~r.fork

RECURSIVE FilterMapRepos(_)
\* gh_repos.into_iter().filter(..).map(..).collect()
FilterMapRepos(gh_repos) ==
    IF gh_repos = <<>> THEN <<>>
    ELSE IF KeepRepo(Head(gh_repos))
         THEN <<RepoInfo(Head(gh_repos))>> \o FilterMapRepos(Tail(gh_repos))
         ELSE FilterMapRepos(Tail(gh_repos))

\* The browser build's fetch_repos keeps at most this many repositories.
WasmCatalogCap == 30

RECURSIVE InsertByStars(_, _)
\* r put into a list sorted by falling star count, after the entries with
\* as many stars or more (sort_by is stable).
InsertByStars(sorted, r) ==
    IF sorted = <<>> THEN <<r>>
    ELSE IF Head(sorted).stargazers_count >= r.stargazers_count
         THEN <<Head(sorted)>> \o InsertByStars(Tail(sorted), r)
         ELSE <<r>> \o sorted

RECURSIVE SortByStars(_)
\* repos.sort_by(|a, b| b.stargazers_count.cmp(&a.stargazers_count))
SortByStars(rs) ==
    IF rs = <<>> THEN <<>>
    ELSE InsertByStars(SortByStars(SubSeq(rs, 1, Len(rs) - 1)), rs[Len(rs)])

\* The browser build's fetch_repos: retain, sort_by, truncate.
WasmFetchRepos(gh_repos) ==
    LET kept   == SelectSeq(gh_repos, KeepRepo)
        sorted == SortByStars(kept)
    IN  SubSeq(sorted, 1, IF Len(sorted) < WasmCatalogCap THEN Len(sorted) ELSE WasmCatalogCap)

\* The ways an outbound call to the hosting service fails.
FetchErrors == {"transport", "status"}

---------------------------------------------------------------------------
(* gather_repo_context.  A text is modelled by its length in characters.   *)

RepoCountThreshold == 15

ReadmeCapLarge == 600

ReadmeCapSmall == 1000

SourceCapLarge == 800

SourceCapSmall == 1200

ManifestCap == 300

FileListCap == 20

SourceFetchCap == 2

\* Variant of max_readme_chars: the smaller cap starts one repository later.
max_readme_chars_from17(repo_count) ==
    IF repo_count > RepoCountThreshold + 1 THEN ReadmeCapLarge ELSE ReadmeCapSmall

max_readme_chars(repo_count) ==
    IF repo_count > RepoCountThreshold THEN ReadmeCapLarge ELSE ReadmeCapSmall

max_source_chars(repo_count) ==
    IF repo_count > RepoCountThreshold THEN SourceCapLarge ELSE SourceCapSmall

max_manifest_chars == ManifestCap

ReadmeNames ==
    << <<"R", "E", "A", "D", "M", "E", ".", "m", "d">>,
       <<"r", "e", "a", "d", "m", "e", ".", "m", "d">>,
       <<"R", "e", "a", "d", "m", "e", ".", "m", "d">> >>

ManifestNames ==
    << <<"C", "a", "r", "g", "o", ".", "t", "o", "m", "l">>,
       <<"p", "a", "c", "k", "a", "g", "e", ".", "j", "s", "o", "n">>,
       <<"p", "y", "p", "r", "o", "j", "e", "c", "t", ".", "t", "o", "m", "l">>,
       <<"g", "o", ".", "m", "o", "d">>,
       <<"r", "e", "q", "u", "i", "r", "e", "m", "e", "n", "t", "s", ".", "t", "x", "t">>,
       <<"s", "e", "t", "u", "p", ".", "p", "y">>,
       <<"b", "u", "i", "l", "d", ".", "g", "r", "a", "d", "l", "e">>,
       <<"p", "o", "m", ".", "x", "m", "l">> >>

ExtList ==
    << <<".", "p", "y">>,
       <<".", "j", "s">>,
       <<".", "t", "s">>,
       <<".", "r", "s">>,
       <<".", "g", "o">>,
       <<".", "j", "a", "v", "a">>,
       <<".", "r", "b">>,
       <<".", "p", "h", "p">>,
       <<".", "c", "s">>,
       <<".", "s", "w", "i", "f", "t">>,
       <<".", "k", "t">>,
       <<".", "d", "a", "r", "t">>,
       <<".", "c">>,
       <<".", "c", "p", "p">>,
       <<".", "h">>,
       <<".", "v", "u", "e">>,
       <<".", "s", "v", "e", "l", "t", "e">>,
       <<".", "j", "s", "x">>,
       <<".", "t", "s", "x">>,
       <<".", "l", "u", "a">>,
       <<".", "s", "h">>,
       <<".", "p", "l">> >>

MainNames ==
    << <<"m", "a", "i", "n", ".">>,
       <<"a", "p", "p", ".">>,
       <<"i", "n", "d", "e", "x", ".">>,
       <<"s", "e", "r", "v", "e", "r", ".">>,
       <<"p", "r", "o", "g", "r", "a", "m", ".">>,
       <<"_", "_", "m", "a", "i", "n", "_", "_", ".">>,
       <<"m", "o", "d", ".">>,
       <<"l", "i", "b", ".">>,
       <<"i", "n", "i", "t", ".">>,
       <<"c", "l", "i", ".">>,
       <<"r", "u", "n", ".">>,
       <<"s", "t", "a", "r", "t", ".">>,
       <<"b", "o", "t", ".">> >>

is_source_file(name) ==
    LET lower == ToLowercase(name)
    IN  \E e \in 1..Len(ExtList) : EndsWith(lower, ExtList[e])

is_main_file(name) ==
    LET lower == ToLowercase(name)
    IN  \E m \in 1..Len(MainNames) : Contains(lower, MainNames[m])

\* fetch_file_content: Some(length of the decoded text), or None on any
\* failure (transport, status, encoding, decoding).
fetch_file_content(h, path) ==
    IF path \in DOMAIN h.files THEN Some(h.files[path]) ELSE None

\* fetch_repo_root_files: the file names, or None when the call fails.
fetch_repo_root_files(h) == h.root

S_src_slash == <<"s", "r", "c", "/">>

\* fetch_src_dir_files: the file names prefixed with src/; a non-success
\* status is Ok(empty), a transport or decoding failure is an error.
fetch_src_dir_files(h) ==
    IF h.src = None THEN None
    ELSE Some([i \in 1..Len(h.src[1]) |-> S_src_slash \o h.src[1][i]])

\* chars().take(n) of a text of the given length.
TakeChars(len, n) == IF len < n THEN len ELSE n

\* iter().take(n)
TakeSeq(s, n) == SubSeq(s, 1, IF Len(s) < n THEN Len(s) ELSE n)

RECURSIVE FirstFetched(_, _)
\* The `for name in [..] { if let Ok(..) = fetch .. { ..; break } }` loops:
\* the first name that is fetched, with its text.
FirstFetched(h, names) ==
    IF names = <<>> THEN None
    ELSE IF fetch_file_content(h, Head(names)) # None
         THEN Some([file |-> Head(names), chars |-> fetch_file_content(h, Head(names))[1]])
         ELSE FirstFetched(h, Tail(names))

RECURSIVE SourceParts(_, _, _)
\* The loop over target_files.iter().take(2): one part per fetched file.
SourceParts(h, paths, cap) ==
    IF paths = <<>> THEN <<>>
    ELSE LET got == fetch_file_content(h, Head(paths))
         IN  (IF got # None
              THEN <<[part |-> "SOURCE CODE", file |-> Head(paths),
                      chars |-> TakeChars(got[1], cap)]>>
              ELSE <<>>) \o SourceParts(h, Tail(paths), cap)

\* Variant of FallbackParts: the source files are taken in listing order,
\* entry files are not preferred.
FallbackPartsAnySource(h, repo_count) ==
    LET root      == fetch_repo_root_files(h)
        src       == fetch_src_dir_files(h)
        all_files == (IF root # None THEN root[1] ELSE <<>>)
                     \o (IF src # None THEN src[1] ELSE <<>>)
        target_files == SelectSeq(all_files, is_source_file)
        sources == SourceParts(h, TakeSeq(target_files, SourceFetchCap),
                               max_source_chars(repo_count))
        listed  == IF all_files # <<>>
                   THEN <<[part |-> "FILE STRUCTURE", files |-> TakeSeq(all_files, FileListCap)]>>
                        \o sources
                   ELSE <<>>
        found_source == all_files # <<>> /\ sources # <<>>
    IN  listed \o (IF found_source THEN <<>> ELSE <<[part |-> "NO EVIDENCE"]>>)

\* Variant of FallbackParts: the marker is appended only when no file was
\* listed.
FallbackPartsMarkerWithoutListing(h, repo_count) ==
    LET root      == fetch_repo_root_files(h)
        src       == fetch_src_dir_files(h)
        all_files == (IF root # None THEN root[1] ELSE <<>>)
                     \o (IF src # None THEN src[1] ELSE <<>>)
        main_sources == SelectSeq(all_files, LAMBDA f : is_source_file(f) /\ is_main_file(f))
        any_sources  == SelectSeq(all_files, is_source_file)
        target_files == IF main_sources # <<>> THEN main_sources ELSE any_sources
        sources == SourceParts(h, TakeSeq(target_files, SourceFetchCap),
                               max_source_chars(repo_count))
        listed  == IF all_files # <<>>
                   THEN <<[part |-> "FILE STRUCTURE", files |-> TakeSeq(all_files, FileListCap)]>>
                        \o sources
                   ELSE <<>>
    IN  listed \o (IF all_files # <<>> THEN <<>> ELSE <<[part |-> "NO EVIDENCE"]>>)

\* The `if !has_readme { .. }` block.
FallbackParts(h, repo_count) ==
    LET root      == fetch_repo_root_files(h)
        src       == fetch_src_dir_files(h)
        all_files == (IF root # None THEN root[1] ELSE <<>>)
                     \o (IF src # None THEN src[1] ELSE <<>>)
        main_sources == SelectSeq(all_files, LAMBDA f : is_source_file(f) /\ is_main_file(f))
        any_sources  == SelectSeq(all_files, is_source_file)
        target_files == IF main_sources # <<>> THEN main_sources ELSE any_sources
        sources == SourceParts(h, TakeSeq(target_files, SourceFetchCap),
                               max_source_chars(repo_count))
        listed  == IF all_files # <<>>
                   THEN <<[part |-> "FILE STRUCTURE", files |-> TakeSeq(all_files, FileListCap)]>>
                        \o sources
                   ELSE <<>>
        found_source == all_files # <<>> /\ sources # <<>>
    IN  listed \o (IF found_source THEN <<>> ELSE <<[part |-> "NO EVIDENCE"]>>)

\* One iteration of the loop of gather_repo_context: the evidence record of
\* one repository, as the sequence of its labelled parts.
GatherOne(h, repo, repo_count) ==
    LET header == <<[part |-> "Repo", name |-> repo.name, stars |-> repo.stars,
                     forks |-> repo.forks,
                     language |-> IF repo.language # None THEN repo.language[1] ELSE "N/A",
                     description |-> IF repo.description # None
                                     THEN repo.description[1] ELSE <<"N/A", 0>>]>>
        topics == IF repo.topics # <<>>
                  THEN <<[part |-> "Topics", topics |-> repo.topics]>> ELSE <<>>
        readme == FirstFetched(h, ReadmeNames)
        has_readme == readme # None
        readme_part == IF has_readme
                       THEN <<[part |-> "README",
                               chars |-> TakeChars(readme[1].chars, max_readme_chars(repo_count))]>>
                       ELSE <<>>
        manifest == FirstFetched(h, ManifestNames)
        manifest_part == IF manifest # None
                         THEN <<[part |-> "MANIFEST", file |-> manifest[1].file,
                                 chars |-> TakeChars(manifest[1].chars, max_manifest_chars)]>>
                         ELSE <<>>
    IN  header \o topics \o readme_part \o manifest_part
        \o (IF has_readme THEN <<>> ELSE FallbackParts(h, repo_count))

S_main_py == <<"m", "a", "i", "n", ".", "p", "y">>

S_util_py == <<"u", "t", "i", "l", ".", "p", "y">>

S_notes_txt == <<"n", "o", "t", "e", "s", ".", "t", "x", "t">>

S_lib_rs == <<"l", "i", "b", ".", "r", "s">>

\* Every fetch fails.
HostAllFail == [files |-> <<>>, root |-> None, src |-> None]

\* A README (second candidate name) and a manifest, both longer than any cap.
HostReadme ==
    [ files |-> (ReadmeNames[2] :> 1500) @@ (ManifestNames[2] :> 450),
      root  |-> Some(<<ReadmeNames[2], ManifestNames[2]>>),
      src   |-> Some(<<>>) ]

\* No README: source files in the root and in src/, one of them unreadable.
HostSources ==
    [ files |-> (S_main_py :> 2000) @@ ((S_src_slash \o S_lib_rs) :> 900)
                @@ (ManifestNames[1] :> 200),
      root  |-> Some(<<S_notes_txt, S_util_py, S_main_py, ManifestNames[1]>>),
      src   |-> Some(<<S_lib_rs>>) ]

HostStates == {HostAllFail, HostReadme, HostSources}

---------------------------------------------------------------------------
(* call_llm, call_llm_batch: what the inference backend answers            *)

BatchSize == 8

\* The failures of one inference call: the request is not sent, the status
\* is not a success, the body is not JSON, the content path is absent, the
\* content is not the expected JSON shape.
LlmErrors == {"send", "status", "body", "format", "parse"}

HeroTitles == {"Hero A"}

Bios == {"Bio A"}

\* The names the backend gives its results: that of the first listed
\* repository and that of the ninth, in its own letter case.
LlmNames == {S_My_Repo, <<"R", "i">>}

Tags == {1, 2}

\* An analysis result (struct LlmProject) with the content numbered t.
LlmProject(name, t) ==
    [ name                 |-> name,
      problem_solved       |-> <<"problem", t>>,
      detailed_description |-> <<"detail", t>>,
      use_cases            |-> << <<"use case a", t>>, <<"use case b", t>> >>,
      tech_stack           |-> <<"tech", IF t = 1 THEN "Go" ELSE "Zig">> ]

LlmProjectPool == {LlmProject(n, t) : n \in LlmNames, t \in Tags}

\* The project lists of a response, of at most `room` entries.
ProjectLists(room) == UNION {[1..k -> LlmProjectPool] : k \in 0..room}

\* How many more results this run's responses may hold.
Room == MaxResults - Len(all_llm_projects)

---------------------------------------------------------------------------
(* The merge of analyze (step 5) and of analyze_profile                    *)

NoDescription == <<"No description available.", 0>>

\* Variant of NameMatches: the names are compared as they are.
NameMatchesExactly(p, repo) == p.name = repo.name

\* `p.name.to_lowercase() == repo.name.to_lowercase()`
NameMatches(p, repo) == ToLowercase(p.name) = ToLowercase(repo.name)

RECURSIVE Find(_, _)
\* all_llm_projects.iter().find(..): Some(first matching result) or None.
Find(projects, repo) ==
    IF projects = <<>> THEN None
    ELSE IF NameMatches(Head(projects), repo)
         THEN Some(Head(projects))
         ELSE Find(Tail(projects), repo)

\* Variant of FallbackCard: without a description the problem statement is
\* left empty, and the primary language is not used as a technology tag.
FallbackCardBare(repo) ==
    [ name                 |-> repo.name,
      problem_solved       |-> IF repo.description # None THEN repo.description[1] ELSE <<>>,
      detailed_description |-> <<>>,
      use_cases            |-> <<>>,
      tech_stack           |-> <<>>,
      language             |-> repo.language,
      stars                |-> repo.stars,
      forks                |-> repo.forks,
      html_url             |-> repo.html_url,
      description          |-> repo.description ]

\* The unwrap_or branches: the card of a repository without a result.
FallbackCard(repo) ==
    [ name                 |-> repo.name,
      problem_solved       |-> IF repo.description # None
                               THEN repo.description[1] ELSE NoDescription,
      detailed_description |-> <<>>,
      use_cases            |-> <<>>,
      tech_stack           |-> IF repo.language # None THEN <<repo.language[1]>> ELSE <<>>,
      language             |-> repo.language,
      stars                |-> repo.stars,
      forks                |-> repo.forks,
      html_url             |-> repo.html_url,
      description          |-> repo.description ]

\* Variant of AnalysedCard: the card is named as the result is.
AnalysedCardNamedByResult(repo, p) ==
    [ name                 |-> p.name,
      problem_solved       |-> p.problem_solved,
      detailed_description |-> p.detailed_description,
      use_cases            |-> p.use_cases,
      tech_stack           |-> p.tech_stack,
      language             |-> repo.language,
      stars                |-> repo.stars,
      forks                |-> repo.forks,
      html_url             |-> repo.html_url,
      description          |-> repo.description ]

\* The map branches: the card of a repository with the result p.
AnalysedCard(repo, p) ==
    [ name                 |-> repo.name,
      problem_solved       |-> p.problem_solved,
      detailed_description |-> p.detailed_description,
      use_cases            |-> p.use_cases,
      tech_stack           |-> p.tech_stack,
      language             |-> repo.language,
      stars                |-> repo.stars,
      forks                |-> repo.forks,
      html_url             |-> repo.html_url,
      description          |-> repo.description ]

ProjectCard(repo, llm_project) ==
    IF llm_project # None THEN AnalysedCard(repo, llm_project[1]) ELSE FallbackCard(repo)

\* Variant of MergeCards (filter_map): only the repositories with a result
\* get a card.
MergeCardsOfMatched(catalog, projects) ==
    LET matched == SelectSeq(catalog, LAMBDA repo : Find(projects, repo) # None)
    IN  [i \in 1..Len(matched) |-> ProjectCard(matched[i], Find(projects, matched[i]))]

\* repos.iter().map(|repo| ..).collect()
MergeCards(catalog, projects) ==
    [i \in 1..Len(catalog) |-> ProjectCard(catalog[i], Find(projects, catalog[i]))]

\* The same merge in analyze_profile: names compared by eq_ignore_ascii_case.
WasmNameMatches(p, repo) == EqIgnoreAsciiCase(p.name, repo.name)

RECURSIVE WasmFind(_, _)
WasmFind(projects, repo) ==
    IF projects = <<>> THEN None
    ELSE IF WasmNameMatches(Head(projects), repo)
         THEN Some(Head(projects))
         ELSE WasmFind(Tail(projects), repo)

WasmMergeCards(catalog, projects) ==
    [i \in 1..Len(catalog) |-> ProjectCard(catalog[i], WasmFind(projects, catalog[i]))]

---------------------------------------------------------------------------
(* The responses of the handler                                            *)

\* No file content at hand.
NoContent == [content |-> None, encoding |-> None]

NoResponse == [kind |-> "none", status |-> 0, error |-> <<>>, body |-> None]

\* HttpResponse::BadRequest / InternalServerError with {"error": ..}.
ErrorResponse(status, error) ==
    [kind |-> "error", status |-> status, error |-> error, body |-> None]

\* The handler's thread panicked: no response is written.
PanicResponse == [kind |-> "panic", status |-> 0, error |-> <<>>, body |-> None]

\* HttpResponse::Ok().json(AnalyzeResponse { .. })
OkResponse(u, hero, biography, cards) ==
    [ kind   |-> "ok",
      status |-> 200,
      error  |-> <<>>,
      body   |-> Some([ username    |-> "u",
                        avatar_url  |-> u.avatar_url,
                        profile_url |-> u.html_url,
                        hero_title  |-> hero,
                        bio         |-> biography,
                        projects    |-> cards ]) ]

---------------------------------------------------------------------------
(* The handler `analyze`, one action per awaited outbound call (the code   *)
(* that runs between two awaits belongs to the action of the first).       *)

S_default_url ==
    <<"h", "t", "t", "p", "s", ":", "/", "/", "o", "l", "l", "a", "m", "a", ".", "c", "o", "m">>

\* https://x/mod<e-acute>le: a two-byte character, then two ASCII characters.
S_accent_url ==
    <<"h", "t", "t", "p", "s", ":", "/", "/", "x", "/", "m", "o", "d", "U+00E9", "l", "e">>

\* The endpoint URLs a request of the pipeline carries.
ApiUrls == {S_default_url, S_accent_url}

Init ==
    /\ pc = "start"
    /\ api_url \in ApiUrls
    /\ host \in HostStates
    /\ user = None
    /\ listing = None
    /\ repos = <<>>
    /\ contexts = <<>>
    /\ detected = None
    /\ all_llm_projects = <<>>
    /\ hero_title = ""
    /\ bio = ""
    /\ calls = <<>>
    /\ response = NoResponse
    /\ content = NoContent
    /\ decoded = None

\* Step 1, fetch_github_user succeeds.
FetchUserOk ==
    /\ pc = "start"
    /\ user' = Some(GitHubUserValue)
    /\ pc' = "repos"
    /\ UNCHANGED <<content, decoded, api_url, host, listing, repos, contexts, detected,
                   all_llm_projects, hero_title, bio, calls, response>>

\* Step 1, fetch_github_user fails: 400.
FetchUserErr ==
    /\ pc = "start"
    /\ \E e \in FetchErrors :
           response' = ErrorResponse(400, <<"GitHub user error", e>>)
    /\ pc' = "done"
    /\ UNCHANGED <<content, decoded, api_url, host, user, listing, repos, contexts, detected,
                   all_llm_projects, hero_title, bio, calls>>

\* Step 2, fetch_repos succeeds; an empty catalog is answered with 400.
FetchReposOk ==
    /\ pc = "repos"
    /\ \E gh_repos \in ListingResponses :
           /\ listing' = Some(gh_repos)
           /\ repos' = FilterMapRepos(gh_repos)
    /\ IF repos' = <<>>
       THEN /\ response' =
                   ErrorResponse(400, <<"No public repositories found for this user.">>)
            /\ pc' = "done"
       ELSE /\ response' = response
            /\ pc' = "gather"
    /\ UNCHANGED <<content, decoded, api_url, host, user, contexts, detected,
                   all_llm_projects, hero_title, bio, calls>>

\* Step 2, fetch_repos fails: 400.
FetchReposErr ==
    /\ pc = "repos"
    /\ \E e \in FetchErrors :
           response' = ErrorResponse(400, <<"GitHub repos error", e>>)
    /\ pc' = "done"
    /\ UNCHANGED <<content, decoded, api_url, host, user, listing, repos, contexts, detected,
                   all_llm_projects, hero_title, bio, calls>>

\* Variant of Gather: a failed root listing of a repository without README
\* is propagated (as with `?`) and ends the request.
GatherAbortsOnFailedListing ==
    /\ pc = "gather"
    /\ IF FirstFetched(host, ReadmeNames) = None /\ fetch_repo_root_files(host) = None
       THEN /\ response' = ErrorResponse(500, <<"Evidence error">>)
            /\ pc' = "done"
            /\ UNCHANGED <<contexts, detected>>
       ELSE /\ contexts' = Append(contexts,
                                  GatherOne(host, repos[Len(contexts) + 1], Len(repos)))
            /\ IF Len(contexts') < Len(repos)
               THEN UNCHANGED <<pc, detected, response>>
               ELSE /\ detected' = Some(DetectApiMode(api_url))
                    /\ IF detected'[1].panic
                       THEN response' = PanicResponse /\ pc' = "done"
                       ELSE response' = response /\ pc' = "batch"
    /\ UNCHANGED <<content, decoded, api_url, host, user, listing, repos,
                   all_llm_projects, hero_title, bio, calls>>

\* Step 3, one iteration of the loop of gather_repo_context; after the last
\* one, `detect_api_mode(&api_url)` of step 4 runs before the first call.
Gather ==
    /\ pc = "gather"
    /\ contexts' = Append(contexts, GatherOne(host, repos[Len(contexts) + 1], Len(repos)))
    /\ IF Len(contexts') < Len(repos)
       THEN UNCHANGED <<pc, detected, response>>
       ELSE /\ detected' = Some(DetectApiMode(api_url))
            /\ IF detected'[1].panic
               THEN response' = PanicResponse /\ pc' = "done"
               ELSE response' = response /\ pc' = "batch"
    /\ UNCHANGED <<content, decoded, api_url, host, user, listing, repos,
                   all_llm_projects, hero_title, bio, calls>>

\* total_batches
TotalBatches(n) == (n + BatchSize - 1) \div BatchSize

Min(a, b) == IF a < b THEN a ELSE b

\* Variant of Call: the required names are taken from the start of the
\* catalog, not from the chunk.
CallNamedFromCatalogStart(ok, projects) ==
    LET batch_idx   == Len(calls)
        chunk_start == batch_idx * BatchSize
        chunk_end   == Min(chunk_start + BatchSize, Len(contexts))
    IN  [ batch_idx   |-> batch_idx,
          mode        |-> IF batch_idx = 0 THEN "full" ELSE "batch",
          chunk_start |-> chunk_start,
          chunk_end   |-> chunk_end,
          batch_names |-> [i \in 1..(chunk_end - chunk_start) |-> repos[i].name],
          endpoint    |-> DetectApiMode(api_url).endpoint,
          ok          |-> ok,
          projects    |-> projects ]

\* `&contexts[chunk_start..chunk_end]`: the evidence of a call's chunk.
BatchContexts(call) == SubSeq(contexts, call.chunk_start + 1, call.chunk_end)

\* The inference call of the chunk at hand, with its outcome.
Call(ok, projects) ==
    LET batch_idx   == Len(calls)
        chunk_start == batch_idx * BatchSize
        chunk_end   == Min(chunk_start + BatchSize, Len(contexts))
    IN  [ batch_idx   |-> batch_idx,
          mode        |-> IF batch_idx = 0 THEN "full" ELSE "batch",
          chunk_start |-> chunk_start,
          chunk_end   |-> chunk_end,
          batch_names |-> [i \in 1..(chunk_end - chunk_start) |-> repos[chunk_start + i].name],
          endpoint    |-> DetectApiMode(api_url).endpoint,
          ok          |-> ok,
          projects    |-> projects ]

\* The rest of the loop body after a chunk, and step 5 after the last chunk.
Continue(call, projects, hero, biography) ==
    /\ calls' = Append(calls, call)
    /\ all_llm_projects' = projects
    /\ hero_title' = hero
    /\ bio' = biography
    /\ IF call.chunk_start + BatchSize < Len(contexts)
       THEN UNCHANGED <<pc, response>>
       ELSE /\ response' = OkResponse(user[1], hero, biography, MergeCards(repos, projects))
            /\ pc' = "done"

\* `return HttpResponse::InternalServerError()` of the first batch.
Abort(call, e) ==
    /\ calls' = Append(calls, call)
    /\ response' = ErrorResponse(500, <<"LLM error", e>>)
    /\ pc' = "done"
    /\ UNCHANGED <<all_llm_projects, hero_title, bio>>

\* Variant of FirstBatchErr: the failure is skipped as a later batch's is.
FirstBatchErrSkipped(e) ==
    Continue(Call(FALSE, <<>>), all_llm_projects, hero_title, bio)

\* Variant of LaterBatchErr: the failure ends the request as the first
\* batch's does.
LaterBatchErrAborts(e) == Abort(Call(FALSE, <<>>), e)

\* Variant of LaterBatchErr: the failure ends the loop (break), the merge
\* follows at once.
LaterBatchErrBreaks(e) ==
    /\ calls' = Append(calls, Call(FALSE, <<>>))
    /\ response' = OkResponse(user[1], hero_title, bio, MergeCards(repos, all_llm_projects))
    /\ pc' = "done"
    /\ UNCHANGED <<all_llm_projects, hero_title, bio>>

\* Variant of LaterBatchErr: the failure discards the results so far.
LaterBatchErrForgets(e) ==
    Continue(Call(FALSE, <<>>), <<>>, hero_title, bio)

\* Ok(r) of call_llm: hero_title, bio and the projects are taken.  The call
\* is recorded with the hero_title and bio of its response.
FirstBatchOk(r) ==
    Continue(Call(TRUE, r.projects) @@ [hero_title |-> r.hero_title, bio |-> r.bio],
             all_llm_projects \o r.projects, r.hero_title, r.bio)

\* Err(e) of call_llm.
FirstBatchErr(e) == Abort(Call(FALSE, <<>>), e)

\* Variant of LaterBatchOk: the projects are put before those at hand.
LaterBatchOkPrepends(r) ==
    Continue(Call(TRUE, r.projects), r.projects \o all_llm_projects, hero_title, bio)

\* Ok(r) of call_llm_batch: the projects are appended.
LaterBatchOk(r) ==
    Continue(Call(TRUE, r.projects), all_llm_projects \o r.projects, hero_title, bio)

\* Err(e) of call_llm_batch: logged, the batch is skipped.
LaterBatchErr(e) ==
    Continue(Call(FALSE, <<>>), all_llm_projects, hero_title, bio)

\* Step 4, batch 0: call_llm answers.
CallLlmOk ==
    /\ pc = "batch"
    /\ Len(calls) = 0
    /\ \E h \in HeroTitles, b \in Bios, ps \in ProjectLists(Room) :
           FirstBatchOk([hero_title |-> h, bio |-> b, projects |-> ps])
    /\ UNCHANGED <<content, decoded, api_url, host, user, listing, repos, contexts, detected>>

\* Step 4, batch 0: call_llm fails.
CallLlmErr ==
    /\ pc = "batch"
    /\ Len(calls) = 0
    /\ \E e \in LlmErrors : FirstBatchErr(e)
    /\ UNCHANGED <<content, decoded, api_url, host, user, listing, repos, contexts, detected>>

\* Step 4, a later batch: call_llm_batch answers.
CallLlmBatchOk ==
    /\ pc = "batch"
    /\ Len(calls) > 0
    /\ \E ps \in ProjectLists(Room) : LaterBatchOk([projects |-> ps])
    /\ UNCHANGED <<content, decoded, api_url, host, user, listing, repos, contexts, detected>>

\* Step 4, a later batch: call_llm_batch fails.
CallLlmBatchErr ==
    /\ pc = "batch"
    /\ Len(calls) > 0
    /\ \E e \in LlmErrors : LaterBatchErr(e)
    /\ UNCHANGED <<content, decoded, api_url, host, user, listing, repos, contexts, detected>>

Next ==
    \/ FetchUserOk
    \/ FetchUserErr
    \/ FetchReposOk
    \/ FetchReposErr
    \/ Gather
    \/ CallLlmOk
    \/ CallLlmErr
    \/ CallLlmBatchOk
    \/ CallLlmBatchErr

Spec == Init /\ [][Next]_vars

---------------------------------------------------------------------------
(* detect_api_mode on its own: the endpoint URL is drawn from the URLs     *)
(* built of a prefix and a few path pieces.                                *)

\* Number of path pieces after the prefix of a URL, at most.
MaxSegs == 2

S_https_x == <<"h", "t", "t", "p", "s", ":", "/", "/", "x">>

S_http_ollama_local ==
    <<"h", "t", "t", "p", ":", "/", "/", "o", "l", "l", "a", "m", "a", ".", "l", "o", "c", "a", "l">>

UrlPrefixes == {<<>>, S_https_x, S_https_x \o S_port, S_http_ollama_local}

UrlSegments ==
    { S_v \o <<"1">>, S_api, S_api_generate, S_api_chat, S_chat_completions,
      <<"/">>, S_v, <<"U+00E9">>, <<"a", "b">>, <<"9">> }

RECURSIVE Flatten(_)
Flatten(ss) == IF ss = <<>> THEN <<>> ELSE Head(ss) \o Flatten(Tail(ss))

Urls ==
    {p \o Flatten(segs) :
        p \in UrlPrefixes, segs \in UNION {[1..k -> UrlSegments] : k \in 0..MaxSegs}}

InitResolve ==
    /\ pc = "resolve"
    /\ api_url \in Urls
    /\ host = HostAllFail
    /\ user = None
    /\ listing = None
    /\ repos = <<>>
    /\ contexts = <<>>
    /\ detected = None
    /\ all_llm_projects = <<>>
    /\ hero_title = ""
    /\ bio = ""
    /\ calls = <<>>
    /\ response = NoResponse
    /\ content = NoContent
    /\ decoded = None

\* let (mode, endpoint) = detect_api_mode(&api_url);
Resolve ==
    /\ pc = "resolve"
    /\ detected' = Some(DetectApiMode(api_url))
    /\ pc' = "resolved"
    /\ UNCHANGED <<content, decoded, api_url, host, user, listing, repos, contexts,
                   all_llm_projects, hero_title, bio, calls, response>>

SpecResolve == InitResolve /\ [][Resolve]_vars

\* A later request whose endpoint URL is the concrete URL that the earlier
\* one resolved: `let (mode, endpoint) = detect_api_mode(&api_url);` again.
ResolveAgain ==
    /\ pc = "resolved"
    /\ ~detected[1].panic
    /\ api_url' = detected[1].endpoint
    /\ detected' = Some(DetectApiMode(api_url'))
    /\ pc' = "resolved again"
    /\ UNCHANGED <<content, decoded, host, user, listing, repos, contexts,
                   all_llm_projects, hero_title, bio, calls, response>>

SpecResolveAgain == InitResolve /\ [][Resolve \/ ResolveAgain]_vars

---------------------------------------------------------------------------
(* gather_repo_context on its own: the handler has fetched the account and *)
(* a non-empty catalog, the hosting service answers the file fetches in    *)
(* one of many success/failure patterns.                                   *)

S_app_js == <<"a", "p", "p", ".", "j", "s">>

S_helper_rb == <<"h", "e", "l", "p", "e", "r", ".", "r", "b">>

\* Root listings: source files of which two are entry files; source files
\* of which none is an entry file; no source file.
RootEntries == <<S_notes_txt, S_util_py, S_main_py, S_app_js>>

RootPlain == <<S_notes_txt, S_util_py, S_helper_rb>>

RootNoSource == <<S_notes_txt>>

\* Outcomes of fetch_repo_root_files: an error, or a listing.
RootListings == {None, Some(RootEntries), Some(RootPlain), Some(RootNoSource)}

\* Outcomes of fetch_src_dir_files: an error, no src directory, a listing.
SrcListings == {None, Some(<<>>), Some(<<S_lib_rs>>)}

\* The length in characters of each file's text, when the file is served.
FileTexts ==
    (ReadmeNames[2] :> 1500) @@ (ReadmeNames[3] :> 500) @@ (ManifestNames[2] :> 450)
    @@ (S_main_py :> 2000) @@ (S_app_js :> 700) @@ (S_util_py :> 1000)
    @@ ((S_src_slash \o S_lib_rs) :> 900)

SourcePaths == {S_main_py, S_app_js, S_util_py, S_src_slash \o S_lib_rs}

\* The hosting service serves exactly the files in `paths` and answers the
\* two directory listings with `root` and `src`.
HostServing(paths, root, src) ==
    [files |-> [p \in paths |-> FileTexts[p]], root |-> root, src |-> src]

\* Without a README: every pattern of manifest, listings and source files.
\* With a README (under either or both names): everything else is served.
HostPatterns ==
    {HostServing(mf \cup srcs, root, src) :
        mf \in {{}, {ManifestNames[2]}}, srcs \in SUBSET SourcePaths,
        root \in RootListings, src \in SrcListings}
    \cup
    {HostServing(rm \cup mf \cup SourcePaths, Some(RootEntries), Some(<<S_lib_rs>>)) :
        rm \in {{ReadmeNames[2]}, {ReadmeNames[3]}, {ReadmeNames[2], ReadmeNames[3]}},
        mf \in {{}, {ManifestNames[2]}}}

InitEvidence ==
    /\ pc = "gather"
    /\ api_url = S_default_url
    /\ host \in HostPatterns
    /\ user = Some(GitHubUserValue)
    /\ \E n \in 1..MaxListing : listing = Some([i \in 1..n |-> GitHubRepo(i, 1)])
    /\ repos = FilterMapRepos(listing[1])
    /\ contexts = <<>>
    /\ detected = None
    /\ all_llm_projects = <<>>
    /\ hero_title = ""
    /\ bio = ""
    /\ calls = <<>>
    /\ response = NoResponse
    /\ content = NoContent
    /\ decoded = None

SpecEvidence == InitEvidence /\ [][Gather]_vars

---------------------------------------------------------------------------
(* base64_decode, and fetch_file_content from the arrival of the response  *)
(* on.  A String is the sequence of its UTF-8 bytes; an encoded content is *)
(* a sequence of characters.                                               *)

\* Variant of TABLE: the URL-safe alphabet ('-' and '_' for '+' and '/').
TABLE_urlsafe ==
    <<"A", "B", "C", "D", "E", "F", "G", "H", "I", "J", "K", "L", "M",
      "N", "O", "P", "Q", "R", "S", "T", "U", "V", "W", "X", "Y", "Z",
      "a", "b", "c", "d", "e", "f", "g", "h", "i", "j", "k", "l", "m",
      "n", "o", "p", "q", "r", "s", "t", "u", "v", "w", "x", "y", "z",
      "0", "1", "2", "3", "4", "5", "6", "7", "8", "9", "-", "_">>

\* const TABLE: &[u8; 64]
TABLE ==
    <<"A", "B", "C", "D", "E", "F", "G", "H", "I", "J", "K", "L", "M",
      "N", "O", "P", "Q", "R", "S", "T", "U", "V", "W", "X", "Y", "Z",
      "a", "b", "c", "d", "e", "f", "g", "h", "i", "j", "k", "l", "m",
      "n", "o", "p", "q", "r", "s", "t", "u", "v", "w", "x", "y", "z",
      "0", "1", "2", "3", "4", "5", "6", "7", "8", "9", "+", "/">>

\* TABLE.iter().position(|&b| b == byte)
TablePosition(c) ==
    LET hits == {i \in 1..Len(TABLE) : TABLE[i] = c}
    IN  IF hits = {} THEN None
        ELSE Some((CHOOSE i \in hits : \A j \in hits : i <= j) - 1)

RECURSIVE DecodeLoopSkipsPadding(_, _, _, _, _)
\* Variant of DecodeLoop: '=' is skipped like an unknown symbol, the loop
\* goes on after it.
DecodeLoopSkipsPadding(input, i, bits, bit_count, buf) ==
    IF i > Len(input) THEN buf
    ELSE LET pos == TablePosition(input[i])
         IN  IF pos = None
             THEN DecodeLoopSkipsPadding(input, i + 1, bits, bit_count, buf)
             ELSE LET shifted == (bits * 64) + pos[1]
                      count   == bit_count + 6
                  IN  IF count >= 8
                      THEN DecodeLoopSkipsPadding(input, i + 1,
                                      shifted % (2^(count - 8)),
                                      count - 8,
                                      Append(buf, (shifted \div (2^(count - 8))) % 256))
                      ELSE DecodeLoopSkipsPadding(input, i + 1, shifted, count, buf)

RECURSIVE DecodeLoop(_, _, _, _, _)
\* The loop of base64_decode from the i-th character on.  After each
\* iteration `bits` holds bit_count <= 6 bits, so `bits << 6` stays below
\* 2^12 and the u32 never overflows.
DecodeLoop(input, i, bits, bit_count, buf) ==
    IF i > Len(input) THEN buf
    ELSE IF input[i] = "=" THEN buf
    ELSE LET pos == TablePosition(input[i])
         IN  IF pos = None
             THEN DecodeLoop(input, i + 1, bits, bit_count, buf)
             ELSE LET shifted == (bits * 64) + pos[1]
                      count   == bit_count + 6
                  IN  IF count >= 8
                      THEN DecodeLoop(input, i + 1,
                                      shifted % (2^(count - 8)),
                                      count - 8,
                                      Append(buf, (shifted \div (2^(count - 8))) % 256))
                      ELSE DecodeLoop(input, i + 1, shifted, count, buf)

\* A continuation byte of UTF-8.
IsContinuation(b) == b >= 128 /\ b <= 191

RECURSIVE IsUtf8(_)
\* The validation of String::from_utf8.
IsUtf8(bytes) ==
    IF bytes = <<>> THEN TRUE
    ELSE LET b == bytes[1]
             n == Len(bytes)
         IN  IF b < 128 THEN IsUtf8(Tail(bytes))
             ELSE IF b >= 194 /\ b <= 223
             THEN n >= 2 /\ IsContinuation(bytes[2]) /\ IsUtf8(SubSeq(bytes, 3, n))
             ELSE IF b >= 224 /\ b <= 239
             THEN /\ n >= 3
                  /\ IsContinuation(bytes[2])
                  /\ (b = 224 => bytes[2] >= 160)
                  /\ (b = 237 => bytes[2] <= 159)
                  /\ IsContinuation(bytes[3])
                  /\ IsUtf8(SubSeq(bytes, 4, n))
             ELSE IF b >= 240 /\ b <= 244
             THEN /\ n >= 4
                  /\ IsContinuation(bytes[2])
                  /\ (b = 240 => bytes[2] >= 144)
                  /\ (b = 244 => bytes[2] <= 143)
                  /\ IsContinuation(bytes[3])
                  /\ IsContinuation(bytes[4])
                  /\ IsUtf8(SubSeq(bytes, 5, n))
             ELSE FALSE

\* Ok(text)
OkText(bytes) == [ok |-> TRUE, text |-> bytes, error |-> ""]

\* Err(error)
ErrText(error) == [ok |-> FALSE, text |-> <<>>, error |-> error]

\* base64_decode
base64_decode(input) ==
    LET buf == DecodeLoop(input, 1, 0, 0, <<>>)
    IN  IF IsUtf8(buf) THEN OkText(buf) ELSE ErrText("UTF-8 decode error")

\* char::is_whitespace
IsWhitespace(c) == c \in {" ", "\n", "\t", "\r"}

\* encoded.chars().filter(|c| !c.is_whitespace()).collect()
Cleaned(encoded) == SelectSeq(encoded, LAMBDA c : ~IsWhitespace(c))

\* The match of fetch_file_content on (content.content, content.encoding).
DecodeContent(c) ==
    IF c.content # None /\ c.encoding = Some("base64")
    THEN base64_decode(Cleaned(c.content[1]))
    ELSE ErrText("Unexpected encoding")

(* The contents the hosting service serves: the standard base64 encoding   *)
(* of a text, with line breaks or blanks put in.                           *)

\* Number of characters of a file's text, at most.
MaxText == 3

\* The UTF-8 bytes of the characters that the texts are made of.
Utf8Char ==
    ("M" :> <<77>>) @@ ("~" :> <<126>>) @@ ("?" :> <<63>>) @@ ("U+00E9" :> <<195, 169>>)

\* The UTF-8 bytes of a text.
Utf8(text) == Flatten([i \in 1..Len(text) |-> Utf8Char[text[i]]])

Texts == UNION {[1..k -> DOMAIN Utf8Char] : k \in 0..MaxText}

\* The alphabet of the standard base64 encoding (RFC 4648, section 4).
StandardAlphabet ==
    <<"A", "B", "C", "D", "E", "F", "G", "H", "I", "J", "K", "L", "M",
      "N", "O", "P", "Q", "R", "S", "T", "U", "V", "W", "X", "Y", "Z",
      "a", "b", "c", "d", "e", "f", "g", "h", "i", "j", "k", "l", "m",
      "n", "o", "p", "q", "r", "s", "t", "u", "v", "w", "x", "y", "z",
      "0", "1", "2", "3", "4", "5", "6", "7", "8", "9", "+", "/">>

RECURSIVE Base64Encode(_)
\* The standard base64 encoding of a byte sequence, with '=' padding.
Base64Encode(bytes) ==
    LET n == Len(bytes)
        sym(k) == StandardAlphabet[k + 1]
    IN  IF n = 0 THEN <<>>
        ELSE IF n = 1
        THEN <<sym(bytes[1] \div 4), sym((bytes[1] % 4) * 16), "=", "=">>
        ELSE IF n = 2
        THEN <<sym(bytes[1] \div 4),
               sym((bytes[1] % 4) * 16 + bytes[2] \div 16),
               sym((bytes[2] % 16) * 4), "=">>
        ELSE <<sym(bytes[1] \div 4),
               sym((bytes[1] % 4) * 16 + bytes[2] \div 16),
               sym((bytes[2] % 16) * 4 + bytes[3] \div 64),
               sym(bytes[3] % 64)>> \o Base64Encode(SubSeq(bytes, 4, n))

\* The encoding of every text.
EncodedTexts == [x \in Texts |-> Base64Encode(Utf8(x))]

RECURSIVE Interleave(_, _, _)
\* s with the character ws after every `gap` characters (gap = 0: s itself).
Interleave(s, gap, ws) ==
    IF gap = 0 \/ Len(s) < gap THEN s
    ELSE SubSeq(s, 1, gap) \o <<ws>> \o Interleave(SubSeq(s, gap + 1, Len(s)), gap, ws)

\* Where the hosting service breaks the encoded text, and with what.
Breaks == {<<0, " ">>, <<4, "\n">>, <<3, "\n">>, <<1, " ">>, <<2, "\t">>, <<5, "\r">>}

\* struct GitHubContent
GitHubContent(c, e) == [content |-> c, encoding |-> e]

\* Number of characters of a content that is not a standard encoding, at most.
MaxInput == 5

\* Contents that are not the encoding of a text: symbols of the alphabet
\* ("TT" holds the byte 77, "//" the byte 255), padding anywhere, and a
\* character outside the alphabet (e-acute, whose two bytes are both passed
\* over by the loop).
OddContents ==
    UNION {[1..k -> {"T", "/", "=", "U+00E9"}] : k \in 0..MaxInput}

Contents ==
    {GitHubContent(Some(Interleave(EncodedTexts[x], b[1], b[2])), Some("base64")) :
        x \in Texts, b \in Breaks}
    \cup {GitHubContent(Some(s), Some("base64")) : s \in OddContents}
    \cup {GitHubContent(None, Some("base64")),
          GitHubContent(Some(EncodedTexts[<<"M">>]), Some("none")),
          GitHubContent(Some(EncodedTexts[<<"M">>]), None)}

InitDecode ==
    /\ pc = "decode"
    /\ content \in Contents
    /\ decoded = None
    /\ api_url = S_default_url
    /\ host = HostAllFail
    /\ user = None
    /\ listing = None
    /\ repos = <<>>
    /\ contexts = <<>>
    /\ detected = None
    /\ all_llm_projects = <<>>
    /\ hero_title = ""
    /\ bio = ""
    /\ calls = <<>>
    /\ response = NoResponse

\* fetch_file_content after `resp.json()`: the content is decoded.
Decode ==
    /\ pc = "decode"
    /\ decoded' = Some(DecodeContent(content))
    /\ pc' = "decoded"
    /\ UNCHANGED <<content, api_url, host, user, listing, repos, contexts, detected,
                   all_llm_projects, hero_title, bio, calls, response>>

SpecDecode == InitDecode /\ [][Decode]_vars

---------------------------------------------------------------------------
(* Claims about detect_api_mode (checked under SpecResolve)                *)

\* u without its last n characters.
DropLast(u, n) == SubSeq(u, 1, Len(u) - n)

\* The seven rules as the specification lists them, first match wins, on
\* the URL without its trailing slashes.
SevenRules(u) ==
    LET b == TrimEndMatchesSlash(u)
    IN  IF EndsWith(b, S_chat_completions) THEN Resolved("openai", b)
        ELSE IF EndsWith(b, S_api_chat) THEN Resolved("ollama", b)
        ELSE IF EndsWith(b, S_api_generate)
             THEN Resolved("ollama", DropLast(b, Len(S_api_generate)) \o S_api_chat)
        ELSE IF \E d \in {"0", "1", "2", "3", "4", "5", "6", "7", "8", "9"} :
                    EndsWith(b, S_v \o <<d>>)
             THEN Resolved("openai", b \o S_chat_completions)
        ELSE IF EndsWith(b, S_api) THEN Resolved("ollama", b \o S_chat)
        ELSE IF Contains(b, S_port) \/ Contains(b, S_ollama)
             THEN Resolved("ollama", b \o S_api_chat)
        ELSE Resolved("openai", b \o S_v1_chat_completions)

\* C9: dialect resolution applies the seven rules in order, first match
\* wins, to every URL string: the resolver's answer is the answer of the
\* rules (dialect and concrete URL).
C9_SevenRulesInOrder ==
    pc = "resolved" => detected = Some(SevenRules(api_url))

\* C10: for every URL that ends with /api/generate, resolution yields the
\* native dialect and the URL with only that trailing suffix rewritten to
\* /api/chat; everything before the suffix is unchanged.
C10_GenerateSuffixRewritten ==
    (pc = "resolved" /\ EndsWith(api_url, S_api_generate))
        => detected = Some(Resolved("ollama",
                              DropLast(api_url, Len(S_api_generate)) \o S_api_chat))

\* Number of '/' characters appended to a URL, at most.
MaxSlashes == 3

\* k '/' characters.
Slashes(k) == [i \in 1..k |-> "/"]

\* u up to its last character that is not '/'.
WithoutTrailingSlashes(u) ==
    LET n == CHOOSE i \in 0..Len(u) :
                 /\ (i = 0 \/ u[i] # "/")
                 /\ \A j \in (i + 1)..Len(u) : u[j] = "/"
    IN  SubSeq(u, 1, n)

\* C11: trailing slashes do not affect resolution: the answer for a URL is
\* the answer for the URL without its trailing slashes, and for that URL
\* followed by any number of slashes; the concrete URL neither ends with a
\* slash nor holds the stripped slashes after the stripped URL.
C11_TrailingSlashesIgnored ==
    pc = "resolved"
        => LET b == WithoutTrailingSlashes(api_url)
               r == detected[1]
           IN  /\ detected = Some(DetectApiMode(b))
               /\ \A k \in 0..MaxSlashes : DetectApiMode(b \o Slashes(k)) = r
               /\ ~r.panic
                      => /\ r.endpoint # <<>>
                         /\ r.endpoint[Len(r.endpoint)] # "/"
                         /\ ~StartsWith(r.endpoint, b \o Slashes(2))

\* https://x/v1/ resolves as https://x/v1 does.
C11_Witness ==
    /\ pc = "resolved"
    /\ api_url = S_https_x \o S_v \o <<"1", "/">>
    /\ detected = Some(Resolved("openai", S_https_x \o S_v \o <<"1">> \o S_chat_completions))

\* C22: resolution is idempotent on its own output: when the concrete URL
\* of an answer (d, c) is resolved in its turn, the answer is (d, c) again;
\* the URL is neither extended nor rewritten, the dialect does not flip, and
\* the second resolution does not abort.
C22_ResolveIdempotent ==
    [][(pc = "resolved" /\ pc' = "resolved again")
           => /\ api_url' = detected[1].endpoint
              /\ ~detected'[1].panic
              /\ detected'[1].endpoint = detected[1].endpoint
              /\ detected'[1].mode = detected[1].mode
              /\ detected' = detected]_vars

\* https://x/api/chat, the concrete URL that https://x/api/generate and
\* https://x/api resolve to, resolved again: native, the same URL.
C22_Witness ==
    /\ pc = "resolved again"
    /\ api_url = S_https_x \o S_api_chat
    /\ detected = Some(Resolved("ollama", S_https_x \o S_api_chat))

\* C23: resolution is total: for every endpoint string the resolver returns
\* a dialect and a concrete URL and never aborts.
C23_ResolveTotal ==
    pc = "resolved" => (detected # None /\ ~detected[1].panic)

---------------------------------------------------------------------------
(* Claims about the pipeline (checked under Spec)                          *)

Done == pc = "done"

\* The project cards of the response: none when no document is returned.
Cards == IF response.body # None THEN response.body[1].projects ELSE <<>>

ReturnsDocument == response.kind = "ok" /\ response.body # None

FirstCallOk == Len(calls) >= 1 /\ calls[1].ok

FirstCallFailed == Len(calls) >= 1 /\ ~calls[1].ok

LaterCallsAllFailed == \A k \in 2..Len(calls) : ~calls[k].ok

\* The place in the alphabet of each letter, of either case.
LetterIndex ==
    [c \in {LowerLetters[i] : i \in 1..Len(LowerLetters)}
            \cup {UpperLetters[i] : i \in 1..Len(UpperLetters)} |->
        CHOOSE i \in 1..Len(LowerLetters) : c \in {LowerLetters[i], UpperLetters[i]}]

\* Two characters that are equal or the two cases of one letter.
SameLetter(x, y) ==
    \/ x = y
    \/ /\ x \in DOMAIN LetterIndex
       /\ y \in DOMAIN LetterIndex
       /\ LetterIndex[x] = LetterIndex[y]

\* Two names that are equal ignoring letter case.
EqualIgnoringCase(a, b) ==
    /\ Len(a) = Len(b)
    /\ \A i \in 1..Len(a) : SameLetter(a[i], b[i])

\* The positions of the results in `results` that name the repository.
Hits(results, repo) ==
    {j \in 1..Len(results) : EqualIgnoringCase(results[j].name, repo.name)}

\* The results of the successful calls, in call order.
KeptResults ==
    Flatten([k \in 1..Len(calls) |-> IF calls[k].ok THEN calls[k].projects ELSE <<>>])

\* The number of chunks of n repositories.
ChunkCount(n) == CHOOSE c \in 0..n : c * BatchSize >= n /\ (c = 0 \/ (c - 1) * BatchSize < n)

\* The card carries the metadata-derived fallback fields of the repository.
HasFallbackFields(card, repo) ==
    /\ card.problem_solved =
           IF repo.description = <<>>
           THEN <<"No description available.", 0>> ELSE repo.description[1]
    /\ card.detailed_description = <<>>
    /\ card.use_cases = <<>>
    /\ card.tech_stack = IF repo.language = <<>> THEN <<>> ELSE <<repo.language[1]>>

\* The card carries the four analysis fields of the result p.
HasAnalysisOf(card, p) ==
    /\ card.problem_solved = p.problem_solved
    /\ card.detailed_description = p.detailed_description
    /\ card.use_cases = p.use_cases
    /\ card.tech_stack = p.tech_stack

C2_Original ==
    (Done /\ Len(calls) >= 1 /\ \A k \in 1..Len(calls) : ~calls[k].ok)
        => /\ ReturnsDocument
           /\ Len(Cards) = Len(repos)
           /\ \A i \in 1..Len(repos) : HasFallbackFields(Cards[i], repos[i])

\* C2 amended: when the first inference call fails the run returns an error
\* and no card; when every call but the first fails, the run returns one
\* card per repository, and every card of a repository that no result of
\* the first response names carries the fallback fields.
C2_FailureOfAllLaterCalls ==
    /\ (Done /\ FirstCallFailed)
           => (response.kind = "error" /\ response.body = None /\ Cards = <<>>)
    /\ (Done /\ FirstCallOk /\ LaterCallsAllFailed)
           => /\ ReturnsDocument
              /\ Len(Cards) = Len(repos)
              /\ \A i \in 1..Len(repos) :
                     Hits(calls[1].projects, repos[i]) = {}
                         => HasFallbackFields(Cards[i], repos[i])

\* Every call but the first failed, and the first named none of the
\* repositories of the later chunks.
C2_Witness ==
    /\ Done
    /\ Len(calls) = 3
    /\ FirstCallOk
    /\ LaterCallsAllFailed
    /\ ReturnsDocument
    /\ \A i \in (BatchSize + 1)..Len(repos) : HasFallbackFields(Cards[i], repos[i])

\* C3: once the call of chunk 0 has failed, the request is over with the
\* error response that carries the inference error, no document and no
\* card, and that call is the only one ever issued.
C3_FirstChunkFailureIsFatal ==
    FirstCallFailed
        => /\ Done
           /\ response.kind = "error"
           /\ response.status = 500
           /\ \E e \in LlmErrors : response.error = <<"LLM error", e>>
           /\ response.body = None
           /\ Cards = <<>>
           /\ Len(calls) = 1
           /\ calls[1].batch_idx = 0
           /\ calls[1].mode = "full"

\* The first call failed on a catalog of more than one chunk.
C3_Witness ==
    /\ FirstCallFailed
    /\ Len(repos) > BatchSize
    /\ response.kind = "error"

\* C4: a failed call of a chunk k >= 1 does not abort the run: the run goes
\* on to the next chunk or, after the last chunk, returns the document; at
\* the end every chunk has had its call, and the results of the successful
\* chunks are all kept and used by the cards.
C4_LaterChunkFailureIsAbsorbed ==
    \A k \in 2..Len(calls) :
        ~calls[k].ok
            => /\ calls[1].ok
               /\ response.kind \in {"none", "ok"}
               /\ all_llm_projects = KeptResults
               /\ \A j \in 1..Len(calls) : calls[j].batch_idx = j - 1
               /\ IF Done
                  THEN /\ ReturnsDocument
                       /\ Len(calls) = ChunkCount(Len(repos))
                       /\ LET kept == KeptResults
                          IN  \A i \in 1..Len(repos) :
                                  \E j \in Hits(kept, repos[i]) \cup {0} :
                                      IF j = 0 THEN Hits(kept, repos[i]) = {}
                                      ELSE HasAnalysisOf(Cards[i], kept[j])
                  ELSE /\ pc = "batch"
                       /\ Len(calls) < ChunkCount(Len(repos))

\* Chunk 1 failed, chunk 2 was called after it and answered, and the
\* results of chunks 0 and 2 are in the document.
C4_Witness ==
    /\ Done
    /\ Len(calls) = 3
    /\ calls[1].ok /\ calls[1].projects # <<>>
    /\ ~calls[2].ok
    /\ calls[3].ok /\ calls[3].projects # <<>>
    /\ ReturnsDocument
    /\ \E i \in 1..Len(repos) : HasAnalysisOf(Cards[i], calls[3].projects[1])

\* The repositories of the chunk of the k-th call.
ChunkOf(k) == (calls[k].chunk_start + 1)..calls[k].chunk_end

\* C5 as stated: every repository of a failed later batch has a card with
\* the fallback fields, whatever the other batches returned.
C5_Original ==
    (Done /\ ReturnsDocument)
        => \A k \in 2..Len(calls) :
               ~calls[k].ok
                   => \A i \in ChunkOf(k) : HasFallbackFields(Cards[i], repos[i])

\* C5 amended: a repository of a failed later batch has a card with the
\* fallback fields when no result of the successful batches names it
\* (ignoring case), and the analysis of such a result when one does.
C5_FailedBatchFallsBackUnlessNamed ==
    (Done /\ ReturnsDocument)
        => LET kept == KeptResults
           IN  \A k \in 2..Len(calls) :
                   ~calls[k].ok
                       => \A i \in ChunkOf(k) :
                              LET named == Hits(kept, repos[i])
                              IN  IF named = {}
                                  THEN HasFallbackFields(Cards[i], repos[i])
                                  ELSE \E j \in named : HasAnalysisOf(Cards[i], kept[j])

\* Chunk 1 failed; one of its repositories is named by a result of
\* another chunk and has that analysis, another is not and has the
\* fallback fields.
C5_Witness ==
    /\ Done
    /\ ReturnsDocument
    /\ Len(calls) >= 2
    /\ ~calls[2].ok
    /\ \E i \in ChunkOf(2) :
           /\ Hits(KeptResults, repos[i]) # {}
           /\ ~HasFallbackFields(Cards[i], repos[i])
    /\ \E i \in ChunkOf(2) :
           /\ Hits(KeptResults, repos[i]) = {}
           /\ HasFallbackFields(Cards[i], repos[i])

\* The least element of a non-empty set of numbers.
Least(S) == CHOOSE x \in S : \A y \in S : x <= y

\* C6: the card of a repository takes its four analysis fields from the
\* first entry of the accumulated result list whose name equals the
\* repository's ignoring case; the browser build's merge gives the same
\* cards.
C6_FirstMatchIgnoringCaseWins ==
    (Done /\ ReturnsDocument)
        => /\ \A i \in 1..Len(repos) :
                  Hits(all_llm_projects, repos[i]) # {}
                      => HasAnalysisOf(Cards[i],
                             all_llm_projects[Least(Hits(all_llm_projects, repos[i]))])
           /\ WasmMergeCards(repos, all_llm_projects) = Cards

\* Repository my-repo, two results named My-Repo with different content:
\* the card has the content of the first and not of the second.
C6_Witness ==
    /\ Done
    /\ ReturnsDocument
    /\ repos[1].name = S_my_repo
    /\ Len(all_llm_projects) = 2
    /\ all_llm_projects[1].name = S_My_Repo
    /\ all_llm_projects[2].name = S_My_Repo
    /\ all_llm_projects[1].problem_solved # all_llm_projects[2].problem_solved
    /\ HasAnalysisOf(Cards[1], all_llm_projects[1])
    /\ ~HasAnalysisOf(Cards[1], all_llm_projects[2])

\* C7: the card of a repository that no result names has the repository's
\* description, or the fixed string, as problem statement, an empty
\* detailed description, no use case, and the primary language alone, or
\* nothing, as technology tags.
C7_FallbackFields ==
    (Done /\ ReturnsDocument)
        => \A i \in 1..Len(repos) :
               Hits(all_llm_projects, repos[i]) = {}
                   => /\ Cards[i].problem_solved =
                             IF repos[i].description = <<>>
                             THEN <<"No description available.", 0>>
                             ELSE repos[i].description[1]
                      /\ Cards[i].detailed_description = <<>>
                      /\ Cards[i].use_cases = <<>>
                      /\ Cards[i].tech_stack =
                             IF repos[i].language = <<>>
                             THEN <<>> ELSE <<repos[i].language[1]>>

\* Two unnamed repositories: one without description and language (fixed
\* string, no tag), one with both (its description, its language).
C7_Witness ==
    /\ Done
    /\ ReturnsDocument
    /\ \E i \in 1..Len(repos) :
           /\ Hits(all_llm_projects, repos[i]) = {}
           /\ repos[i].description = <<>> /\ repos[i].language = <<>>
           /\ Cards[i].problem_solved = <<"No description available.", 0>>
           /\ Cards[i].tech_stack = <<>>
    /\ \E i \in 1..Len(repos) :
           /\ Hits(all_llm_projects, repos[i]) = {}
           /\ repos[i].description # <<>> /\ repos[i].language # <<>>
           /\ Cards[i].problem_solved = repos[i].description[1]
           /\ Cards[i].tech_stack = <<repos[i].language[1]>>

\* C8: the i-th card carries the name, stars, forks, URL, language and
\* description of the i-th catalog repository, whatever the results hold.
C8_MetadataFromCatalog ==
    (Done /\ ReturnsDocument)
        => /\ Len(Cards) = Len(repos)
           /\ \A i \in 1..Len(repos) :
                  /\ Cards[i].name = repos[i].name
                  /\ Cards[i].stars = repos[i].stars
                  /\ Cards[i].forks = repos[i].forks
                  /\ Cards[i].html_url = repos[i].html_url
                  /\ Cards[i].language = repos[i].language
                  /\ Cards[i].description = repos[i].description

\* A repository whose card has the analysis of a result named in another
\* letter case, and the catalog's name.
C8_Witness ==
    /\ Done
    /\ ReturnsDocument
    /\ \E i \in 1..Len(repos) :
           /\ Hits(all_llm_projects, repos[i]) # {}
           /\ \A j \in Hits(all_llm_projects, repos[i]) :
                  all_llm_projects[j].name # repos[i].name
           /\ Cards[i].detailed_description # <<>>
           /\ Cards[i].name = repos[i].name

\* The names of a sequence of repositories, in order.
NamesOf(rs) == [i \in 1..Len(rs) |-> rs[i].name]

\* The names of the listed repositories that are forks.
ForkNames ==
    IF listing = <<>> THEN {}
    ELSE {listing[1][i].name : i \in {j \in 1..Len(listing[1]) : listing[1][j].fork}}

\* The listed repositories that are not forks, in listing order.
ListedNonForks ==
    IF listing = <<>> THEN <<>> ELSE SelectSeq(listing[1], LAMBDA r : ~r.fork)

\* The place of a name in the listing.
ListedAt(name) == CHOOSE i \in 1..Len(listing[1]) : listing[1][i].name = name

\* No fork is in the catalog, in an evidence record, in the names of a
\* batch or on a card, and the catalog is the non-fork repositories in
\* listing order.
NoForkDownstream ==
    /\ NamesOf(repos) = NamesOf(ListedNonForks)
    /\ \A i \in 1..Len(repos) : repos[i].name \notin ForkNames
    /\ \A i \in 1..Len(contexts) :
           contexts[i][1].name \notin ForkNames /\ contexts[i][1].name = repos[i].name
    /\ \A k \in 1..Len(calls) :
           \A i \in 1..Len(calls[k].batch_names) : calls[k].batch_names[i] \notin ForkNames
    /\ \A i \in 1..Len(Cards) : Cards[i].name \notin ForkNames

C17_BatchPartitioning ==
    LET N      == Len(repos)
        chunks == (N + 7) \div 8
    IN  /\ Len(calls) <= chunks
        /\ \A k \in 1..Len(calls) :
               LET c    == calls[k]
                   size == c.chunk_end - c.chunk_start
               IN  /\ c.batch_idx = k - 1
                   /\ c.chunk_start = 8 * (k - 1)
                   /\ c.chunk_end = (IF 8 * k < N THEN 8 * k ELSE N)
                   /\ k > 1 => c.chunk_start = calls[k - 1].chunk_end
                   /\ size >= 1 /\ size <= 8
                   /\ size < 8 => (k = chunks /\ c.chunk_end = N)
                   /\ Len(c.batch_names) = size
                   /\ Len(BatchContexts(c)) = size
                   /\ \A i \in 1..size :
                          /\ c.batch_names[i] = repos[c.chunk_start + i].name
                          /\ BatchContexts(c)[i] = contexts[c.chunk_start + i]
                          /\ BatchContexts(c)[i][1].name = c.batch_names[i]
        /\ (Done /\ ReturnsDocument)
               => /\ N >= 1
                  /\ Len(calls) = chunks
                  /\ calls[1].chunk_start = 0
                  /\ calls[chunks].chunk_end = N
                  /\ \A i \in 1..N : Cardinality({k \in 1..chunks : i \in ChunkOf(k)}) = 1

\* Seventeen repositories: three chunks, of 8, 8 and 1.
C17_Witness ==
    /\ Done
    /\ ReturnsDocument
    /\ Len(repos) = 17
    /\ Len(calls) = 3
    /\ calls[2].chunk_start = 8 /\ calls[2].chunk_end = 16
    /\ calls[3].chunk_start = 16 /\ calls[3].chunk_end = 17
    /\ calls[3].batch_names = <<repos[17].name>>

\* C18: once the first call has answered, the accumulated result list is
\* the concatenation, in chunk order, of the project lists of the
\* successful chunks, each in the order returned, and the hero title and
\* the biography are those of chunk 0's response, in every later state and
\* in the document returned.
C18_AccumulationOrder ==
    FirstCallOk
        => /\ all_llm_projects = KeptResults
           /\ hero_title = calls[1].hero_title
           /\ bio = calls[1].bio
           /\ (Done /\ ReturnsDocument)
                  => /\ response.body[1].hero_title = calls[1].hero_title
                     /\ response.body[1].bio = calls[1].bio

\* Chunk 0 and chunk 2 answered with one result each, chunk 1 failed: the
\* list is chunk 0's result, then chunk 2's, and the hero title is chunk 0's.
C18_Witness ==
    /\ Done
    /\ ReturnsDocument
    /\ Len(calls) = 3
    /\ calls[1].ok /\ Len(calls[1].projects) = 1
    /\ ~calls[2].ok
    /\ calls[3].ok /\ Len(calls[3].projects) = 1
    /\ calls[1].projects # calls[3].projects
    /\ all_llm_projects = <<calls[1].projects[1], calls[3].projects[1]>>
    /\ calls[1].hero_title = "Hero A"
    /\ response.body[1].hero_title = "Hero A"

\* The error messages of the three early returns: account lookup, catalog
\* listing (the listing call failed, or it listed no repository to work
\* on), first-batch inference.
EarlyReturnErrors ==
    {"GitHub user error", "GitHub repos error",
     "No public repositories found for this user.", "LLM error"}

\* C16: a request that is over has either returned the merged document or
\* returned the error of an account-lookup, catalog-listing or first-batch
\* inference failure; nothing else ends it.
C16_EarlyTerminationOnlyOnThreeFailures ==
    Done
        => \/ ReturnsDocument
           \/ /\ response.kind = "error"
              /\ response.error # <<>>
              /\ response.error[1] \in EarlyReturnErrors
              /\ (response.error[1] = "LLM error" => Len(calls) = 1)

---------------------------------------------------------------------------
(* Claims about gather_repo_context (checked under SpecEvidence)           *)

\* The parts of an evidence record with the given label.
PartsOf(rec, label) == SelectSeq(rec, LAMBDA p : p.part = label)

\* The first of the names that the hosting service serves, if any.
FirstServed(names) ==
    LET hits == {k \in 1..Len(names) : names[k] \in DOMAIN host.files}
    IN  IF hits = {} THEN <<>> ELSE <<names[Least(hits)]>>

\* The shorter of a text's length and a cap.
Capped(len, cap) == IF len <= cap THEN len ELSE cap

\* C12: in every evidence record the README, manifest and source excerpts
\* are the first 600, 300 and 800 characters of their texts when the catalog
\* has more than 15 repositories, and the first 1000, 300 and 1200 when it
\* has 15 or fewer (the whole text when it is shorter).
C12_BudgetLaw ==
    LET large      == Len(repos) > 15
        readme_cap == IF large THEN 600 ELSE 1000
        source_cap == IF large THEN 800 ELSE 1200
    IN  \A i \in 1..Len(contexts) :
            \A j \in 1..Len(contexts[i]) :
                LET p == contexts[i][j]
                IN  /\ p.part = "README"
                        => /\ p.chars <= readme_cap
                           /\ p.chars = Capped(host.files[FirstServed(ReadmeNames)[1]],
                                                readme_cap)
                    /\ p.part = "MANIFEST"
                        => /\ p.chars <= 300
                           /\ p.chars = Capped(host.files[p.file], 300)
                    /\ p.part = "SOURCE CODE"
                        => /\ p.chars <= source_cap
                           /\ p.chars = Capped(host.files[p.file], source_cap)

\* A catalog of 16 repositories: a README of 1500 characters is cut to 600
\* and a manifest of 450 to 300.
C12_Witness ==
    /\ Len(repos) = 16
    /\ Len(contexts) = 16
    /\ ReadmeNames[2] \in DOMAIN host.files
    /\ host.files[ReadmeNames[2]] = 1500
    /\ \E j \in 1..Len(contexts[16]) :
           contexts[16][j].part = "README" /\ contexts[16][j].chars = 600
    /\ \E j \in 1..Len(contexts[16]) :
           contexts[16][j].part = "MANIFEST" /\ contexts[16][j].chars = 300

\* The header of the evidence record of a repository.
IsHeaderOf(p, repo) ==
    /\ p.part = "Repo"
    /\ p.name = repo.name
    /\ p.stars = repo.stars
    /\ p.forks = repo.forks
    /\ p.language = (IF repo.language = <<>> THEN "N/A" ELSE repo.language[1])
    /\ p.description = (IF repo.description = <<>> THEN <<"N/A", 0>> ELSE repo.description[1])

\* C13: whatever fetches fail, evidence collection goes on one repository
\* after the other while repositories are left (the next iteration needs
\* nothing but a repository without record), produces no response of its
\* own, and ends with exactly one record per catalog repository, in catalog
\* order, each starting with the header of its repository.
C13_EvidenceNeverAborts ==
    /\ Len(contexts) <= Len(repos)
    /\ \A i \in 1..Len(contexts) :
           /\ contexts[i] # <<>>
           /\ IsHeaderOf(contexts[i][1], repos[i])
           /\ \A j \in 2..Len(contexts[i]) : contexts[i][j].part # "Repo"
    /\ pc = "gather"
           => /\ Len(contexts) < Len(repos)
              /\ response = NoResponse
    /\ pc # "gather"
           => /\ Len(contexts) = Len(repos)
              /\ pc = "batch"
              /\ response = NoResponse

\* Every fetch failed for every repository of a catalog of more than one
\* chunk, and every repository has its record.
C13_Witness ==
    /\ pc = "batch"
    /\ host = HostServing({}, None, None)
    /\ Len(repos) > BatchSize
    /\ Len(contexts) = Len(repos)
    /\ \A i \in 1..Len(repos) : IsHeaderOf(contexts[i][1], repos[i])

---------------------------------------------------------------------------
(* Claims about base64_decode (checked under SpecDecode)                   *)

\* s without its blanks, tabs and line breaks.
WithoutWhitespace(s) == SelectSeq(s, LAMBDA c : c \notin {" ", "\n", "\t", "\r"})

\* C14: decoding the standard base64 encoding of a text, also with
\* whitespace put in, gives exactly the text.
C14_DecodingRoundTrip ==
    (pc = "decoded" /\ content.content # None /\ content.encoding = Some("base64"))
        => \A x \in Texts :
               WithoutWhitespace(content.content[1]) = EncodedTexts[x]
                   => decoded = Some(OkText(Utf8(x)))

\* The text of two e-acute, four bytes: its encoding w6nDqQ== with a line
\* break after every third character is decoded to the four bytes.
C14_Witness ==
    /\ pc = "decoded"
    /\ content = GitHubContent(Some(<<"w", "6", "n", "\n", "D", "q", "Q", "\n", "=", "=">>),
                               Some("base64"))
    /\ decoded = Some(OkText(<<195, 169, 195, 169>>))

\* The part of s before its first '='.
BeforePadding(s) ==
    LET stops == {i \in 1..Len(s) : s[i] = "="}
    IN  IF stops = {} THEN s
        ELSE SubSeq(s, 1, (CHOOSE i \in stops : \A j \in stops : i <= j) - 1)

\* The value of a symbol of the 64-symbol alphabet.
SymbolValue(c) == (CHOOSE k \in 1..64 : StandardAlphabet[k] = c) - 1

\* s', the part of s before the first '=' without the characters outside
\* the alphabet.
KeptSymbols(s) ==
    SelectSeq(BeforePadding(s), LAMBDA c : \E k \in 1..64 : StandardAlphabet[k] = c)

RECURSIVE BytesOfSymbols(_)
\* The bytes that a sequence of symbols holds: 6 bits a symbol, 8 bits a
\* byte, the bits left over at the end dropped.
BytesOfSymbols(syms) ==
    LET n    == Len(syms)
        v(k) == SymbolValue(syms[k])
    IN  IF n < 2 THEN <<>>
        ELSE IF n = 2 THEN <<v(1) * 4 + v(2) \div 16>>
        ELSE IF n = 3 THEN <<v(1) * 4 + v(2) \div 16, (v(2) % 16) * 16 + v(3) \div 4>>
        ELSE <<v(1) * 4 + v(2) \div 16, (v(2) % 16) * 16 + v(3) \div 4,
               (v(3) % 4) * 64 + v(4)>> \o BytesOfSymbols(SubSeq(syms, 5, n))

\* C21: decoding an input s gives what decoding s' gives, s' being the part
\* of s before the first '=' without the characters outside the alphabet;
\* what follows the first '=' changes nothing; the decoding fails exactly
\* when the bytes that the symbols of s' hold are not valid UTF-8, with the
\* UTF-8 error, and gives these bytes otherwise.
C21_LenientDecoding ==
    (pc = "decoded" /\ content.content # None /\ content.encoding = Some("base64"))
        => LET s     == content.content[1]
               bytes == BytesOfSymbols(KeptSymbols(s))
           IN  /\ decoded = Some(base64_decode(KeptSymbols(s)))
               /\ decoded = Some(base64_decode(BeforePadding(s)))
               /\ decoded[1].ok <=> IsUtf8(bytes)
               /\ decoded[1].ok => decoded[1].text = bytes
               /\ ~decoded[1].ok => decoded[1] = ErrText("UTF-8 decode error")

\* T, e-acute, T, =, / holds an unknown symbol before the padding and a symbol after it:
\* it is decoded as TT is, to the byte 77.
C21_Witness ==
    /\ pc = "decoded"
    /\ content = GitHubContent(Some(<<"T", "U+00E9", "T", "=", "/">>), Some("base64"))
    /\ KeptSymbols(content.content[1]) = <<"T", "T">>
    /\ decoded = Some(OkText(<<77>>))

\* A README is served under one of the candidate names.
ReadmeServed == FirstServed(ReadmeNames) # <<>>

\* The files the two directory listings give, root first, then src/ (a
\* failed listing gives none).
ListedFiles ==
    (IF host.root = <<>> THEN <<>> ELSE host.root[1])
    \o (IF host.src = <<>> THEN <<>>
        ELSE [k \in 1..Len(host.src[1]) |-> <<"s", "r", "c", "/">> \o host.src[1][k]])

\* The candidate source files: those classified source and entry, or, when
\* there is none, those classified source; in listing order.
Candidates ==
    LET both == SelectSeq(ListedFiles, LAMBDA f : is_source_file(f) /\ is_main_file(f))
    IN  IF both # <<>> THEN both ELSE SelectSeq(ListedFiles, is_source_file)

\* The first two candidates, and those of them that are served.
Tried == SubSeq(Candidates, 1, IF Len(Candidates) < 2 THEN Len(Candidates) ELSE 2)

Fetched == SelectSeq(Tried, LAMBDA f : f \in DOMAIN host.files)

\* The record gather_repo_context pushed last.  Records are only appended,
\* so every record is the newest one in the state reached by its push.
NewestRecord == contexts[Len(contexts)]

\* C19: a newly pushed record with a README excerpt has no file listing and no source
\* excerpt; a record without one lists the root files, then the src/ files,
\* when there are any, and has one source excerpt for each of the first two
\* candidates that could be fetched, in order, the candidates being the
\* files classified source and entry or else all source files.
C19_FallbackSourceSelection ==
    contexts # <<>> =>
        LET rec      == NewestRecord
            readmes  == PartsOf(rec, "README")
            listings == PartsOf(rec, "FILE STRUCTURE")
            sources  == PartsOf(rec, "SOURCE CODE")
        IN  IF ReadmeServed
            THEN Len(readmes) = 1 /\ listings = <<>> /\ sources = <<>>
            ELSE /\ readmes = <<>>
                 /\ IF ListedFiles = <<>>
                    THEN listings = <<>> /\ sources = <<>>
                    ELSE /\ Len(listings) = 1
                         /\ listings[1].files
                                = SubSeq(ListedFiles, 1,
                                         IF Len(ListedFiles) < 20 THEN Len(ListedFiles) ELSE 20)
                         /\ [k \in 1..Len(sources) |-> sources[k].file] = Fetched
                 /\ Len(sources) <= 2

\* No README; main.py, app.js and src/lib.rs are the candidates, main.py is
\* not served, the other two are: the only excerpt is that of app.js.
C19_Witness ==
    /\ Len(contexts) >= 1
    /\ host = HostServing({S_app_js, S_src_slash \o S_lib_rs},
                          Some(RootEntries), Some(<<S_lib_rs>>))
    /\ Candidates = <<S_main_py, S_app_js, S_src_slash \o S_lib_rs>>
    /\ PartsOf(contexts[1], "SOURCE CODE") # <<>>
    /\ \A k \in 1..Len(PartsOf(contexts[1], "SOURCE CODE")) :
           PartsOf(contexts[1], "SOURCE CODE")[k].file = S_app_js

\* C20: a newly pushed record ends with the marker exactly when no README was fetched
\* and no source excerpt was appended (nothing listed, no candidate, or no
\* candidate fetched); the marker never comes with a README excerpt or a
\* source excerpt, and never twice.
C20_NoEvidenceMarker ==
    contexts # <<>> =>
        LET rec     == NewestRecord
            markers == PartsOf(rec, "NO EVIDENCE")
            readmes == PartsOf(rec, "README")
            sources == PartsOf(rec, "SOURCE CODE")
        IN  /\ Len(markers) <= 1
            /\ (markers # <<>>) <=> (readmes = <<>> /\ sources = <<>>)
            /\ (markers # <<>>) <=> (~ReadmeServed /\ Fetched = <<>>)
            /\ markers # <<>> => rec[Len(rec)].part = "NO EVIDENCE"

\* No README; the root listing is served and has candidates, none of them
\* can be fetched: the record has the manifest, the file listing and the
\* marker.
C20_Witness ==
    /\ Len(contexts) >= 1
    /\ host = HostServing({ManifestNames[2]}, Some(RootEntries), None)
    /\ PartsOf(contexts[1], "MANIFEST") # <<>>
    /\ PartsOf(contexts[1], "FILE STRUCTURE") # <<>>
    /\ PartsOf(contexts[1], "SOURCE CODE") = <<>>
    /\ PartsOf(contexts[1], "NO EVIDENCE") # <<>>

====
